---- MODULE Spec2Model ----
(***************************************************************************)
(* Memory admission control of the vectorized allocator                    *)
(* (be/src/vec/common/allocator.cpp): Allocator::sys_memory_check,         *)
(* Allocator::memory_tracker_check, Allocator::memory_check and the alloc  *)
(* path that runs them.                                                    *)
(*                                                                         *)
(* One allocating thread is modelled step by step; every other actor       *)
(* (other threads of the query, the scheduler, the garbage collector, the  *)
(* rest of the process) is the environment, which may cancel the query and *)
(* move the process consumption at any moment.                             *)
(***************************************************************************)
EXTENDS Integers, FiniteSets

(* ------------------------------ bounds -------------------------------- *)
MaxSize == 2
MaxMem == 3
MaxTracker == 2
MaxGrowth == 2
MaxCeilingSteps == 3
MaxAddr == 2

(* ------------------------- program constants -------------------------- *)
\* std::this_thread::sleep_for(std::chrono::milliseconds(100)); wait_milliseconds += 100
PollMs == 100
\* the process hard limit behind GlobalMemoryArbitrator::is_exceed_hard_mem_limit
HardLimit == 2
\* the limit behind thread_mem_tracker()->check_limit
SoftLimit == 1

Threads == {1}
\* two threads of one query that allocate concurrently
Workers == {1, 2}
\* the threads that call the recording backend, and the addresses it hands out
Clients == {1, 2}
Addrs == 1..MaxAddr
Sizes == 1..MaxSize
\* values of config::thread_wait_gc_max_milliseconds: negative, zero, a multiple
\* of the polling increment and a value that is not a multiple of it
Ceilings == {-PollMs, 0} \cup {(k * PollMs) \div 2 : k \in 2..MaxCeilingSteps}

VARIABLES
    fault_enabled,      \* config::mem_alloc_fault_probability > 0.0
    wait_max,           \* config::thread_wait_gc_max_milliseconds
    disable_memory_gc,  \* config::disable_memory_gc
    process_used,       \* process consumption seen by the GlobalMemoryArbitrator
    tracker_used,       \* consumption of thread_mem_tracker()
    query_cancelled,    \* the owning query is cancelled
    growth,             \* GlobalMemoryArbitrator::refresh_interval_memory_growth
    thr,                \* per thread: thread context, position and what the
                        \* current memory_check has done so far
    allocated_sizes,    \* RecordSizeMemoryAllocator::_allocated_sizes: address ->
                        \* size, 0 where the map has no entry
    mutex,              \* RecordSizeMemoryAllocator::_mutex: 0 or its holder
    heap,               \* blocks of the wrapped backend: address -> size, 0 free
    returned,           \* addresses handed to a caller and not yet given back
    cli                 \* per client of the recording backend: its position

vars == <<fault_enabled, wait_max, disable_memory_gc, process_used, tracker_used,
          query_cancelled, growth, thr, allocated_sizes, mutex, heap, returned,
          cli>>

config == <<fault_enabled, wait_max, disable_memory_gc>>

\* the recording backend and its ledger
backend == <<allocated_sizes, mutex, heap, returned, cli>>

(* --------------------------- thread context --------------------------- *)
\* A thread context at the start of a call. attach and wait_gc belong to the
\* thread's ThreadMemTrackerMgr and survive the call, as does timed_out (the
\* context has slept through a whole ceiling once); the rest is the call's own:
\*   skip, catch: skip_memory_check != 0, enable_thread_catch_bad_alloc
\*   wait_ms: wait_milliseconds;  slept: sleeps of this call;  late_sleeps:
\*   those of them that ended with the query already cancelled
\*   sys_path, trk_path: the branch sys_memory_check and memory_tracker_check
\*   left by;  wait_eligible: is_attach_query() && wait_gc() when the hard
\*   limit was found exceeded;  grown: what the call added to growth
\*   cancelled_at_call: the query was cancelled when the call started
\*   ext_cancel_asleep: another actor cancelled the query during a sleep
\*   behind: the threads that were in the wait loop when the call started and
\*   have started no call since
FreshCall(att, wgc, tmo, s, skip, catch, canc) ==
    [attach |-> att, wait_gc |-> wgc, timed_out |-> tmo,
     pc |-> "sys", size |-> s, skip |-> skip, catch |-> catch,
     wait_ms |-> 0, slept |-> 0, late_sleeps |-> 0, raised |-> FALSE,
     cancel_calls |-> 0, fault |-> FALSE, sys_path |-> "none",
     trk_path |-> "none", wait_eligible |-> FALSE, grown |-> 0,
     allocated |-> 0, cancelled_at_call |-> canc, ext_cancel_asleep |-> FALSE,
     behind |-> {}]

InitThread(att) ==
    [FreshCall(att, TRUE, FALSE, 1, FALSE, FALSE, FALSE) EXCEPT !.pc = "idle"]

\* no block allocated, the ledger empty, the mutex free
InitBackend ==
    /\ allocated_sizes = [a \in Addrs |-> 0]
    /\ mutex = 0
    /\ heap = [a \in Addrs |-> 0]
    /\ returned = {}
    /\ cli = [c \in Clients |-> [pc |-> "idle", addr |-> 0, size |-> 0,
                                 snap |-> [a \in Addrs |-> 0]]]

Init ==
    /\ fault_enabled \in BOOLEAN
    /\ wait_max \in Ceilings
    /\ disable_memory_gc \in BOOLEAN
    /\ process_used = 0
    /\ tracker_used = 0
    /\ query_cancelled = FALSE
    /\ growth = 0
    /\ thr \in [Threads -> {InitThread(a) : a \in BOOLEAN}]
    /\ InitBackend

(* -------------------------- the collaborators ------------------------- *)
is_exceed_hard_mem_limit(s) == process_used + s > HardLimit

check_limit(s) == tracker_used + s <= SoftLimit

is_query_cancelled(t) == thr[t].attach /\ query_cancelled

\* query_cancelled after thread t's cancel_query: a thread that is attached to
\* no query has no query to cancel
after_cancel_query(t) == query_cancelled \/ thr[t].attach

\* the outcomes of fault(gen), a Bernoulli draw with mem_alloc_fault_probability
FaultDraws == IF fault_enabled THEN BOOLEAN ELSE {FALSE}

(* ------------------------------- alloc -------------------------------- *)
\* alloc -> alloc_impl -> memory_check(size): the caller's thread context holds
\* skip_memory_check and enable_thread_catch_bad_alloc when the call starts.
\* the threads that sleep in the wait loop
Waiting == {u \in DOMAIN thr : thr[u].pc \in {"sleep", "cancel1"}}

\* a call whose skip_memory_check and enable_thread_catch_bad_alloc are drawn
\* from the given sets
CallWith(t, skips, catches) ==
    /\ thr[t].pc \in {"idle", "done"}
    /\ \E s \in Sizes, skip \in skips, catch \in catches :
         /\ tracker_used + s <= MaxTracker
         /\ growth + s <= MaxGrowth
         /\ thr' = [u \in DOMAIN thr |->
                      IF u = t
                      THEN [FreshCall(thr[t].attach, thr[t].wait_gc,
                                      thr[t].timed_out, s, skip, catch,
                                      is_query_cancelled(t))
                              EXCEPT !.behind = Waiting \ {t}]
                      ELSE [thr[u] EXCEPT !.behind = @ \ {t}]]
    /\ UNCHANGED <<config, backend, process_used, tracker_used, query_cancelled,
                   growth>>

Call(t) == CallWith(t, BOOLEAN, BOOLEAN)

(* -------------------------- sys_memory_check -------------------------- *)
FaultInjection_ShortCircuits(t) ==
    \E f \in FaultDraws :
      IF ~f
      THEN /\ thr' = [thr EXCEPT ![t].pc = "hard"]
           /\ UNCHANGED query_cancelled
      ELSE IF ~thr[t].catch
      THEN /\ thr' = [thr EXCEPT ![t].fault = TRUE, ![t].sys_path = "fault",
                                 ![t].cancel_calls = @ + 1,
                                 ![t].pc = "checked"]
           /\ query_cancelled' = after_cancel_query(t)
      ELSE /\ thr' = [thr EXCEPT ![t].fault = TRUE, ![t].sys_path = "fault",
                                 ![t].raised = TRUE, ![t].pc = "checked"]
           /\ UNCHANGED query_cancelled

FaultInjection_AlwaysCancels(t) ==
    \E f \in FaultDraws :
      IF ~f
      THEN /\ thr' = [thr EXCEPT ![t].pc = "hard"]
           /\ UNCHANGED query_cancelled
      ELSE /\ thr' = [thr EXCEPT ![t].fault = TRUE,
                                 ![t].cancel_calls = @ + 1,
                                 ![t].pc = "hard"]
           /\ query_cancelled' = after_cancel_query(t)

\* fault injection: a drawn fault cancels the query and goes on to the hard
\* limit (no return follows cancel_query), or throws
FaultInjection(t) ==
    \E f \in FaultDraws :
      IF ~f
      THEN /\ thr' = [thr EXCEPT ![t].pc = "hard"]
           /\ UNCHANGED query_cancelled
      ELSE IF ~thr[t].catch
      THEN /\ thr' = [thr EXCEPT ![t].fault = TRUE,
                                 ![t].cancel_calls = @ + 1,
                                 ![t].pc = "hard"]
           /\ query_cancelled' = after_cancel_query(t)
      ELSE /\ thr' = [thr EXCEPT ![t].fault = TRUE, ![t].sys_path = "fault",
                                 ![t].raised = TRUE, ![t].pc = "checked"]
           /\ UNCHANGED query_cancelled

SysEntry_NoBypass(t) ==
    /\ thr[t].pc = "sys"
    /\ FaultInjection(t)
    /\ UNCHANGED <<config, backend, process_used, tracker_used, growth>>

\* if (skip_memory_check != 0) return; then the fault injection
SysEntry(t) ==
    /\ thr[t].pc = "sys"
    /\ IF thr[t].skip
       THEN /\ thr' = [thr EXCEPT ![t].sys_path = "bypass", ![t].pc = "trk"]
            /\ UNCHANGED query_cancelled
       ELSE FaultInjection(t)
    /\ UNCHANGED <<config, backend, process_used, tracker_used, growth>>

SysHardLimit_AlwaysPasses(t) ==
    /\ thr[t].pc = "hard"
    /\ thr' = [thr EXCEPT ![t].sys_path = "pass", ![t].pc = "trk"]
    /\ UNCHANGED <<config, backend, process_used, tracker_used, query_cancelled,
                   growth>>

SysHardLimit_Fifo(t) ==
    /\ thr[t].pc = "hard"
    /\ IF is_exceed_hard_mem_limit(thr[t].size) \/ Waiting \ {t} # {}
       THEN thr' = [thr EXCEPT ![t].pc = "cancel0"]
       ELSE thr' = [thr EXCEPT ![t].sys_path = "pass", ![t].pc = "trk"]
    /\ UNCHANGED <<config, backend, process_used, tracker_used, query_cancelled,
                   growth>>

\* if (is_exceed_hard_mem_limit(size))
SysHardLimit(t) ==
    /\ thr[t].pc = "hard"
    /\ IF is_exceed_hard_mem_limit(thr[t].size)
       THEN thr' = [thr EXCEPT ![t].pc = "cancel0"]
       ELSE thr' = [thr EXCEPT ![t].sys_path = "pass", ![t].pc = "trk"]
    /\ UNCHANGED <<config, backend, process_used, tracker_used, query_cancelled, growth>>

AlreadyCancelled_DisablesWait(t, path) ==
    /\ IF thr[t].catch
       THEN thr' = [thr EXCEPT ![t].wait_eligible = thr[t].wait_gc,
                               ![t].wait_gc = FALSE, ![t].sys_path = path,
                               ![t].raised = TRUE, ![t].pc = "checked"]
       ELSE thr' = [thr EXCEPT ![t].wait_eligible = thr[t].wait_gc,
                               ![t].wait_gc = FALSE, ![t].sys_path = path,
                               ![t].pc = "trk"]
    /\ UNCHANGED query_cancelled

\* if (is_query_cancelled()) { if (catch) throw; return; }
AlreadyCancelled(t, path) ==
    /\ IF thr[t].catch
       THEN thr' = [thr EXCEPT ![t].wait_eligible = thr[t].wait_gc,
                               ![t].sys_path = path,
                               ![t].raised = TRUE, ![t].pc = "checked"]
       ELSE thr' = [thr EXCEPT ![t].wait_eligible = thr[t].wait_gc,
                               ![t].sys_path = path, ![t].pc = "trk"]
    /\ UNCHANGED query_cancelled

AfterWait_KeepsWaitGc(t, w) ==
    IF w >= wait_max
    THEN IF ~thr[t].catch
         THEN /\ thr' = [thr EXCEPT ![t].wait_ms = w, ![t].wait_eligible = TRUE,
                                    ![t].timed_out = (w > 0),
                                    ![t].sys_path = "timeout",
                                    ![t].cancel_calls = @ + 1, ![t].pc = "trk"]
              /\ query_cancelled' = after_cancel_query(t)
         ELSE /\ thr' = [thr EXCEPT ![t].wait_ms = w, ![t].wait_eligible = TRUE,
                                    ![t].timed_out = (w > 0),
                                    ![t].sys_path = "timeout",
                                    ![t].raised = TRUE, ![t].pc = "checked"]
              /\ UNCHANGED query_cancelled
    ELSE /\ thr' = [thr EXCEPT ![t].wait_ms = w, ![t].wait_eligible = TRUE,
                               ![t].sys_path = "nowait", ![t].pc = "trk"]
         /\ UNCHANGED query_cancelled

AfterWait_AlwaysCancels(t, w) ==
    IF w >= wait_max
    THEN /\ thr' = [thr EXCEPT ![t].wait_ms = w, ![t].wait_eligible = TRUE,
                               ![t].wait_gc = FALSE, ![t].timed_out = (w > 0),
                               ![t].sys_path = "timeout",
                               ![t].cancel_calls = @ + 1, ![t].pc = "trk"]
         /\ query_cancelled' = after_cancel_query(t)
    ELSE /\ thr' = [thr EXCEPT ![t].wait_ms = w, ![t].wait_eligible = TRUE,
                               ![t].sys_path = "nowait", ![t].pc = "trk"]
         /\ UNCHANGED query_cancelled

\* after the loop: if (wait_milliseconds >= thread_wait_gc_max_milliseconds)
\* disable_wait_gc(), then cancel_query or throw; else the query continues
AfterWait(t, w) ==
    IF w >= wait_max
    THEN IF ~thr[t].catch
         THEN /\ thr' = [thr EXCEPT ![t].wait_ms = w, ![t].wait_eligible = TRUE,
                                    ![t].wait_gc = FALSE, ![t].timed_out = (w > 0),
                                    ![t].sys_path = "timeout",
                                    ![t].cancel_calls = @ + 1, ![t].pc = "trk"]
              /\ query_cancelled' = after_cancel_query(t)
         ELSE /\ thr' = [thr EXCEPT ![t].wait_ms = w, ![t].wait_eligible = TRUE,
                                    ![t].wait_gc = FALSE, ![t].timed_out = (w > 0),
                                    ![t].sys_path = "timeout",
                                    ![t].raised = TRUE, ![t].pc = "checked"]
              /\ UNCHANGED query_cancelled
    ELSE /\ thr' = [thr EXCEPT ![t].wait_ms = w, ![t].wait_eligible = TRUE,
                               ![t].sys_path = "nowait", ![t].pc = "trk"]
         /\ UNCHANGED query_cancelled

WaitLoop_OffByOne(t, w) ==
    IF w <= wait_max
    THEN /\ thr' = [thr EXCEPT ![t].wait_ms = w, ![t].wait_eligible = TRUE,
                               ![t].pc = "sleep"]
         /\ UNCHANGED query_cancelled
    ELSE AfterWait(t, w)

\* while (wait_milliseconds < thread_wait_gc_max_milliseconds)
WaitLoop(t, w) ==
    IF w < wait_max
    THEN /\ thr' = [thr EXCEPT ![t].wait_ms = w, ![t].wait_eligible = TRUE,
                               ![t].pc = "sleep"]
         /\ UNCHANGED query_cancelled
    ELSE AfterWait(t, w)

\* int64_t wait_milliseconds = 0; if (!config::disable_memory_gc) the loop
WaitForGc(t) ==
    IF ~disable_memory_gc THEN WaitLoop(t, 0) ELSE AfterWait(t, 0)

FailAtOnce_Cancels(t) ==
    IF thr[t].catch
    THEN /\ thr' = [thr EXCEPT ![t].sys_path = "no_wait_gc",
                               ![t].wait_eligible = FALSE,
                               ![t].raised = TRUE, ![t].pc = "checked"]
         /\ UNCHANGED query_cancelled
    ELSE /\ thr' = [thr EXCEPT ![t].sys_path = "no_wait_gc",
                               ![t].wait_eligible = FALSE,
                               ![t].cancel_calls = @ + 1, ![t].pc = "trk"]
         /\ query_cancelled' = after_cancel_query(t)

\* not attached to a query, or wait_gc() is off: throw when the caller catches,
\* else only log "sys memory check failed, no throw exception"
FailAtOnce(t) ==
    /\ IF thr[t].catch
       THEN thr' = [thr EXCEPT ![t].sys_path = "no_wait_gc",
                               ![t].wait_eligible = FALSE,
                               ![t].raised = TRUE, ![t].pc = "checked"]
       ELSE thr' = [thr EXCEPT ![t].sys_path = "no_wait_gc",
                               ![t].wait_eligible = FALSE, ![t].pc = "trk"]
    /\ UNCHANGED query_cancelled

SysExceeded_Unguarded(t) ==
    /\ thr[t].pc = "cancel0"
    /\ IF thr[t].attach /\ thr[t].wait_gc
       THEN WaitForGc(t)
       ELSE FailAtOnce(t)
    /\ UNCHANGED <<config, backend, process_used, tracker_used, growth>>

\* the hard limit is exceeded: already cancelled, wait for gc, or fail at once
SysExceeded(t) ==
    /\ thr[t].pc = "cancel0"
    /\ IF is_query_cancelled(t)
       THEN AlreadyCancelled(t, "cancelled")
       ELSE IF thr[t].attach /\ thr[t].wait_gc
       THEN WaitForGc(t)
       ELSE FailAtOnce(t)
    /\ UNCHANGED <<config, backend, process_used, tracker_used, growth>>

\* what Poll adds to late_sleeps
LateSleep(t) == IF is_query_cancelled(t) THEN 1 ELSE 0

Poll_NoGrowth(t) ==
    /\ thr[t].pc = "sleep"
    /\ IF ~is_exceed_hard_mem_limit(thr[t].size)
       THEN thr' = [thr EXCEPT ![t].slept = @ + 1,
                               ![t].late_sleeps = @ + LateSleep(t),
                               ![t].sys_path = "freed", ![t].pc = "trk"]
       ELSE thr' = [thr EXCEPT ![t].slept = @ + 1,
                               ![t].late_sleeps = @ + LateSleep(t),
                               ![t].pc = "cancel1"]
    /\ UNCHANGED <<config, backend, process_used, tracker_used, query_cancelled,
                   growth>>

Poll_NoBreak(t) ==
    /\ thr[t].pc = "sleep"
    /\ thr' = [thr EXCEPT ![t].slept = @ + 1,
                          ![t].late_sleeps = @ + LateSleep(t),
                          ![t].pc = "cancel1"]
    /\ UNCHANGED <<config, backend, process_used, tracker_used, query_cancelled, growth>>

\* sleep_for(100ms), then the re-check of the hard limit:
\* refresh_interval_memory_growth += size; break
Poll(t) ==
    /\ thr[t].pc = "sleep"
    /\ IF ~is_exceed_hard_mem_limit(thr[t].size)
       THEN /\ growth' = growth + thr[t].size
            /\ thr' = [thr EXCEPT ![t].slept = @ + 1,
                                  ![t].late_sleeps = @ + LateSleep(t),
                                  ![t].grown = thr[t].size,
                                  ![t].sys_path = "freed", ![t].pc = "trk"]
       ELSE /\ thr' = [thr EXCEPT ![t].slept = @ + 1,
                                  ![t].late_sleeps = @ + LateSleep(t),
                                  ![t].pc = "cancel1"]
            /\ UNCHANGED growth
    /\ UNCHANGED <<config, backend, process_used, tracker_used, query_cancelled>>

PollCancelled_Unchecked(t) ==
    /\ thr[t].pc = "cancel1"
    /\ WaitLoop(t, thr[t].wait_ms + PollMs)
    /\ UNCHANGED <<config, backend, process_used, tracker_used, growth>>

\* in the loop: if (is_query_cancelled()) { if (catch) throw; return; }
\* wait_milliseconds += 100
PollCancelled(t) ==
    /\ thr[t].pc = "cancel1"
    /\ IF is_query_cancelled(t)
       THEN AlreadyCancelled(t, "cancelled_wait")
       ELSE WaitLoop(t, thr[t].wait_ms + PollMs)
    /\ UNCHANGED <<config, backend, process_used, tracker_used, growth>>

(* ------------------------ memory_tracker_check ------------------------ *)
TrackerFailed_KeepsWaitGc(t) ==
    IF thr[t].attach
    THEN IF ~thr[t].catch
         THEN /\ thr' = [thr EXCEPT ![t].trk_path = "failed",
                                    ![t].cancel_calls = @ + 1,
                                    ![t].pc = "checked"]
              /\ query_cancelled' = after_cancel_query(t)
         ELSE /\ thr' = [thr EXCEPT ![t].trk_path = "failed",
                                    ![t].raised = TRUE, ![t].pc = "checked"]
              /\ UNCHANGED query_cancelled
    ELSE /\ IF thr[t].catch
            THEN thr' = [thr EXCEPT ![t].trk_path = "failed",
                                    ![t].raised = TRUE, ![t].pc = "checked"]
            ELSE thr' = [thr EXCEPT ![t].trk_path = "failed", ![t].pc = "checked"]
         /\ UNCHANGED query_cancelled

TrackerFailed_OnlyLogs(t) ==
    /\ IF thr[t].catch
       THEN thr' = [thr EXCEPT ![t].trk_path = "failed",
                               ![t].raised = TRUE, ![t].pc = "checked"]
       ELSE thr' = [thr EXCEPT ![t].trk_path = "failed", ![t].pc = "checked"]
    /\ UNCHANGED query_cancelled

\* if (!st): an attached query stops waiting for gc and is cancelled or throws,
\* any other context throws or logs "memory tracker check failed, no throw
\* exception"
TrackerFailed(t) ==
    IF thr[t].attach
    THEN IF ~thr[t].catch
         THEN /\ thr' = [thr EXCEPT ![t].wait_gc = FALSE,
                                    ![t].trk_path = "failed",
                                    ![t].cancel_calls = @ + 1,
                                    ![t].pc = "checked"]
              /\ query_cancelled' = after_cancel_query(t)
         ELSE /\ thr' = [thr EXCEPT ![t].wait_gc = FALSE,
                                    ![t].trk_path = "failed",
                                    ![t].raised = TRUE, ![t].pc = "checked"]
              /\ UNCHANGED query_cancelled
    ELSE /\ IF thr[t].catch
            THEN thr' = [thr EXCEPT ![t].trk_path = "failed",
                                    ![t].raised = TRUE, ![t].pc = "checked"]
            ELSE thr' = [thr EXCEPT ![t].trk_path = "failed", ![t].pc = "checked"]
         /\ UNCHANGED query_cancelled

MemoryTrackerCheck_DisablesWait(t) ==
    /\ thr[t].pc = "trk"
    /\ IF thr[t].skip
       THEN /\ thr' = [thr EXCEPT ![t].trk_path = "bypass", ![t].pc = "checked"]
            /\ UNCHANGED query_cancelled
       ELSE IF check_limit(thr[t].size)
       THEN /\ thr' = [thr EXCEPT ![t].wait_gc = FALSE,
                                  ![t].trk_path = "pass", ![t].pc = "checked"]
            /\ UNCHANGED query_cancelled
       ELSE TrackerFailed(t)
    /\ UNCHANGED <<config, backend, process_used, tracker_used, growth>>

\* if (skip_memory_check != 0) return; check_limit(size); if (!st) ...
MemoryTrackerCheck(t) ==
    /\ thr[t].pc = "trk"
    /\ IF thr[t].skip
       THEN /\ thr' = [thr EXCEPT ![t].trk_path = "bypass", ![t].pc = "checked"]
            /\ UNCHANGED query_cancelled
       ELSE IF check_limit(thr[t].size)
       THEN /\ thr' = [thr EXCEPT ![t].trk_path = "pass", ![t].pc = "checked"]
            /\ UNCHANGED query_cancelled
       ELSE TrackerFailed(t)
    /\ UNCHANGED <<config, backend, process_used, tracker_used, growth>>

(* ---------------------------- memory_check ---------------------------- *)
\* memory_check returns nothing: what it decided is read off what it did.
\* Fail: MEM_ALLOC_FAILED was raised. Cancelled: it returned with the owning
\* query cancelled. Proceed: anything else, the bypass included.
Decision(t) ==
    IF thr[t].raised THEN "Fail"
    ELSE IF thr[t].skip THEN "Proceed"
    ELSE IF is_query_cancelled(t) THEN "Cancelled"
    ELSE "Proceed"

AllocImpl_IgnoresCancel(t) ==
    /\ thr[t].pc = "checked"
    /\ IF ~thr[t].raised
       THEN /\ tracker_used' = tracker_used + thr[t].size
            /\ process_used' = process_used + thr[t].size
            /\ thr' = [thr EXCEPT ![t].allocated = thr[t].size, ![t].pc = "done"]
       ELSE /\ thr' = [thr EXCEPT ![t].pc = "done"]
            /\ UNCHANGED <<tracker_used, process_used>>
    /\ UNCHANGED <<config, backend, query_cancelled, growth>>

\* after memory_check: allocate and consume_memory(size) on Proceed only
AllocImpl(t) ==
    /\ thr[t].pc = "checked"
    /\ IF Decision(t) = "Proceed"
       THEN /\ tracker_used' = tracker_used + thr[t].size
            /\ process_used' = process_used + thr[t].size
            /\ thr' = [thr EXCEPT ![t].allocated = thr[t].size, ![t].pc = "done"]
       ELSE /\ thr' = [thr EXCEPT ![t].pc = "done"]
            /\ UNCHANGED <<tracker_used, process_used>>
    /\ UNCHANGED <<config, backend, query_cancelled, growth>>

\* release_memory(n) between two allocations
Release(t) ==
    /\ thr[t].pc \in {"idle", "done"}
    /\ \E n \in 1..tracker_used :
         /\ tracker_used' = tracker_used - n
         /\ process_used' = process_used - n
    /\ UNCHANGED <<config, backend, query_cancelled, growth, thr>>

(* --------------------------- the environment -------------------------- *)
\* another actor cancels the query
ExtCancel ==
    /\ ~query_cancelled
    /\ query_cancelled' = TRUE
    /\ thr' = [t \in DOMAIN thr |->
                 IF thr[t].pc = "sleep" /\ thr[t].attach
                 THEN [thr[t] EXCEPT !.ext_cancel_asleep = TRUE]
                 ELSE thr[t]]
    /\ UNCHANGED <<config, backend, process_used, tracker_used, growth>>

\* memory of the rest of the process is reclaimed
EnvFree ==
    /\ process_used > tracker_used
    /\ process_used' = process_used - 1
    /\ UNCHANGED <<config, backend, tracker_used, query_cancelled, growth, thr>>

\* the rest of the process consumes memory
EnvConsume ==
    /\ process_used < MaxMem
    /\ process_used' = process_used + 1
    /\ UNCHANGED <<config, backend, tracker_used, query_cancelled, growth, thr>>

\* the arbitrator starts a new refresh interval
RefreshInterval ==
    /\ growth > 0
    /\ growth' = 0
    /\ UNCHANGED <<config, backend, process_used, tracker_used, query_cancelled, thr>>

(* ------------------------ the recording backend ----------------------- *)
\* RecordSizeMemoryAllocator wraps the default backend and keeps the size of
\* every block in _allocated_sizes, which it touches only with _mutex held. A
\* map update is several memory accesses: it is modelled as a read of the map
\* followed by a write of the changed map.
admission == <<config, process_used, tracker_used, query_cancelled, growth, thr>>

\* allocate: the wrapped backend returns a block that is not in use
Malloc(c) ==
    /\ cli[c].pc = "idle"
    /\ \E a \in Addrs, s \in Sizes :
         /\ heap[a] = 0
         /\ heap' = [heap EXCEPT ![a] = s]
         /\ cli' = [cli EXCEPT ![c].pc = "lock_ins", ![c].addr = a, ![c].size = s]
    /\ UNCHANGED <<admission, allocated_sizes, mutex, returned>>

\* deallocate(p) of a block a caller holds
Free(c) ==
    /\ cli[c].pc = "idle"
    /\ \E a \in returned :
         /\ returned' = returned \ {a}
         /\ cli' = [cli EXCEPT ![c].pc = "lock_del", ![c].addr = a,
                               ![c].size = heap[a]]
    /\ UNCHANGED <<admission, allocated_sizes, mutex, heap>>

Lock_Unguarded(c) ==
    /\ cli[c].pc \in {"lock_ins", "lock_del"}
    /\ mutex' = c
    /\ cli' = [cli EXCEPT ![c].pc = IF cli[c].pc = "lock_ins" THEN "read_ins"
                                                               ELSE "read_del"]
    /\ UNCHANGED <<admission, allocated_sizes, heap, returned>>

\* std::lock_guard<std::mutex> lock(_mutex)
Lock(c) ==
    /\ cli[c].pc \in {"lock_ins", "lock_del"}
    /\ mutex = 0
    /\ mutex' = c
    /\ cli' = [cli EXCEPT ![c].pc = IF cli[c].pc = "lock_ins" THEN "read_ins"
                                                               ELSE "read_del"]
    /\ UNCHANGED <<admission, allocated_sizes, heap, returned>>

\* the first half of a map update: the map is read
LedgerRead(c) ==
    /\ cli[c].pc \in {"read_ins", "read_del"}
    /\ cli' = [cli EXCEPT ![c].snap = allocated_sizes,
                          ![c].pc = IF cli[c].pc = "read_ins" THEN "write_ins"
                                                               ELSE "write_del"]
    /\ UNCHANGED <<admission, allocated_sizes, mutex, heap, returned>>

\* _allocated_sizes[p] = size; the lock is released and the block returned
Insert(c) ==
    /\ cli[c].pc = "write_ins"
    /\ allocated_sizes' = [cli[c].snap EXCEPT ![cli[c].addr] = cli[c].size]
    /\ mutex' = IF mutex = c THEN 0 ELSE mutex
    /\ returned' = returned \cup {cli[c].addr}
    /\ cli' = [cli EXCEPT ![c].pc = "idle", ![c].addr = 0, ![c].size = 0,
                          ![c].snap = [a \in Addrs |-> 0]]
    /\ UNCHANGED <<admission, heap>>

\* _allocated_sizes.erase(p); the lock is released
Erase(c) ==
    /\ cli[c].pc = "write_del"
    /\ allocated_sizes' = [cli[c].snap EXCEPT ![cli[c].addr] = 0]
    /\ mutex' = IF mutex = c THEN 0 ELSE mutex
    /\ cli' = [cli EXCEPT ![c].pc = "free", ![c].snap = [a \in Addrs |-> 0]]
    /\ UNCHANGED <<admission, heap, returned>>

\* the wrapped backend frees the block
StdFree(c) ==
    /\ cli[c].pc = "free"
    /\ heap' = [heap EXCEPT ![cli[c].addr] = 0]
    /\ cli' = [cli EXCEPT ![c].pc = "idle", ![c].addr = 0, ![c].size = 0]
    /\ UNCHANGED <<admission, allocated_sizes, mutex, returned>>

(* --------------------------- specification ---------------------------- *)
ThreadStep(t) ==
    \/ Call(t)
    \/ SysEntry(t)
    \/ SysHardLimit(t)
    \/ SysExceeded(t)
    \/ Poll(t)
    \/ PollCancelled(t)
    \/ MemoryTrackerCheck(t)
    \/ AllocImpl(t)
    \/ Release(t)

\* the steps of one memory_check
CheckStep(t) ==
    \/ SysEntry(t)
    \/ SysHardLimit(t)
    \/ SysExceeded(t)
    \/ Poll(t)
    \/ PollCancelled(t)
    \/ MemoryTrackerCheck(t)

Env == ExtCancel \/ EnvFree \/ EnvConsume \/ RefreshInterval

Next == (\E t \in Threads : ThreadStep(t)) \/ Env

Spec == Init /\ [][Next]_vars

\* a thread inside memory_check is scheduled: it sleeps, it is never parked
LiveSpec == Spec /\ \A t \in Threads : WF_vars(CheckStep(t))

\* Two threads of one query allocate concurrently; the configuration is the
\* common one (waiting enabled, a ceiling of one polling increment). The rest
\* of the process holds a fixed or shrinking share of the memory.
ConcInit ==
    /\ fault_enabled \in BOOLEAN
    /\ wait_max = PollMs
    /\ disable_memory_gc = FALSE
    /\ process_used \in 0..1
    /\ tracker_used = 0
    /\ query_cancelled = FALSE
    /\ growth = 0
    /\ thr = [t \in Workers |-> InitThread(TRUE)]
    /\ InitBackend

ConcNext ==
    \/ \E t \in Workers : ThreadStep(t)
    \/ ExtCancel
    \/ EnvFree
    \/ RefreshInterval

ConcSpec == ConcInit /\ [][ConcNext]_vars

\* Two threads allocate concurrently in synchronous mode, bypass off, no fault
\* injection; the rest of the process holds a fixed or shrinking share and
\* consumes nothing more.
SyncInit ==
    /\ fault_enabled = FALSE
    /\ wait_max = PollMs
    /\ disable_memory_gc = FALSE
    /\ process_used \in 0..1
    /\ tracker_used = 0
    /\ query_cancelled = FALSE
    /\ growth = 0
    /\ thr = [t \in Workers |-> InitThread(TRUE)]
    /\ InitBackend

SyncCall(t) == CallWith(t, {FALSE}, {TRUE})

SyncStep(t) ==
    \/ SyncCall(t)
    \/ SysEntry(t)
    \/ SysHardLimit(t)
    \/ SysExceeded(t)
    \/ Poll(t)
    \/ PollCancelled(t)
    \/ MemoryTrackerCheck(t)
    \/ AllocImpl(t)
    \/ Release(t)

SyncNext ==
    \/ \E t \in Workers : SyncStep(t)
    \/ ExtCancel
    \/ EnvFree
    \/ RefreshInterval

SyncSpec == SyncInit /\ [][SyncNext]_vars

\* The recording backend used by concurrent clients.
LedgerInit ==
    /\ fault_enabled = FALSE
    /\ wait_max = PollMs
    /\ disable_memory_gc = FALSE
    /\ process_used = 0
    /\ tracker_used = 0
    /\ query_cancelled = FALSE
    /\ growth = 0
    /\ thr = [t \in Threads |-> InitThread(TRUE)]
    /\ InitBackend

ClientStep(c) ==
    \/ Malloc(c)
    \/ Free(c)
    \/ Lock(c)
    \/ LedgerRead(c)
    \/ Insert(c)
    \/ Erase(c)
    \/ StdFree(c)

LedgerNext == \E c \in Clients : ClientStep(c)

LedgerSpec == LedgerInit /\ [][LedgerNext]_vars

(* ------------------------- what a check has done ---------------------- *)
Checked(t) == thr[t].pc = "checked"

\* sys_memory_check has returned or thrown, memory_tracker_check has not run
SysLeft(t) == thr[t].pc \in {"trk", "checked"} /\ thr[t].trk_path = "none"

\* the call found the hard limit exceeded at its first check
HardExceeded(t) ==
    thr[t].sys_path \in {"cancelled", "no_wait_gc", "nowait", "timeout",
                         "freed", "cancelled_wait"}

\* cancel_query calls of the call, by the stage that made them
FaultCalls(t) == IF thr[t].fault /\ ~thr[t].catch THEN 1 ELSE 0
SysCalls(t) == IF thr[t].sys_path = "timeout" /\ ~thr[t].catch THEN 1 ELSE 0
TrackerCalls(t) ==
    IF thr[t].trk_path = "failed" /\ thr[t].attach /\ ~thr[t].catch THEN 1 ELSE 0

(* ------------------------------- claims ------------------------------- *)

\* C1: the propagation policy is fixed by the flag on every path of
\* memory_check: with enable_thread_catch_bad_alloc on no cancel_query is
\* called, with it off MEM_ALLOC_FAILED is never raised.
C1_PolicyByFlag ==
    \A t \in Threads :
      /\ thr[t].catch => thr[t].cancel_calls = 0
      /\ ~thr[t].catch => ~thr[t].raised

\* a cancellation seen in the wait loop is raised in synchronous mode
C1_Witness ==
    \E t \in Threads :
      Checked(t) /\ thr[t].catch /\ thr[t].raised /\ thr[t].sys_path = "cancelled_wait"

\* C2: an alloc whose check returns with the query cancelled and no exception
\* allocates nothing and records no consumption.
C2_CancelledAllocatesNothing ==
    [][\A t \in Threads :
         ( /\ thr[t].pc = "checked" /\ thr'[t].pc = "done"
           /\ ~thr[t].raised /\ ~thr[t].skip /\ is_query_cancelled(t) )
         => /\ thr'[t].allocated = 0
            /\ tracker_used' = tracker_used
            /\ process_used' = process_used]_vars

\* an alloc that this very check cancelled has returned without allocating
C2_Witness ==
    \E t \in Threads :
      /\ thr[t].pc = "done" /\ ~thr[t].raised /\ ~thr[t].skip
      /\ ~thr[t].cancelled_at_call /\ thr[t].cancel_calls > 0
      /\ is_query_cancelled(t) /\ thr[t].allocated = 0

\* the request exceeded the hard limit in a context that may not wait
C3_Case(t) == Checked(t) /\ HardExceeded(t) /\ ~thr[t].wait_eligible

\* C3 as claimed: a request over the hard limit in a context that is not
\* wait-eligible never sleeps, is Fail in synchronous mode and Cancelled, with
\* the query marked cancelled, in asynchronous mode.
C3_Original ==
    \A t \in Threads :
      C3_Case(t) =>
        /\ thr[t].slept = 0
        /\ thr[t].catch => Decision(t) = "Fail"
        /\ ~thr[t].catch => Decision(t) = "Cancelled" /\ query_cancelled

\* C3 as amended: such a request never sleeps and is Fail in synchronous mode;
\* in asynchronous mode nothing is raised, an already cancelled query gives
\* Cancelled, and otherwise the hard-limit stage only logs: it makes no
\* cancel_query call of its own.
C3_NotEligibleFailsOrLogs ==
    \A t \in Threads :
      C3_Case(t) =>
        /\ thr[t].slept = 0
        /\ thr[t].sys_path \in {"cancelled", "no_wait_gc"}
        /\ thr[t].catch => Decision(t) = "Fail" /\ thr[t].trk_path = "none"
        /\ ~thr[t].catch =>
             /\ ~thr[t].raised
             /\ thr[t].cancel_calls = FaultCalls(t) + TrackerCalls(t)
             /\ thr[t].sys_path = "cancelled" => Decision(t) = "Cancelled"

\* an attached query whose waiting is disabled is admitted over the hard limit
C3_Witness ==
    \E t \in Threads :
      /\ C3_Case(t) /\ ~thr[t].catch /\ thr[t].attach
      /\ thr[t].sys_path = "no_wait_gc" /\ Decision(t) = "Proceed"

\* memory_tracker_check runs with the bypass off and check_limit fails
C4_Case(t) ==
    /\ thr[t].pc = "trk" /\ thr'[t].pc # "trk"
    /\ ~thr[t].skip /\ ~check_limit(thr[t].size)

\* C4 as claimed: a failed soft-limit check escalates without sleeping in every
\* context: it raises in synchronous mode, and in asynchronous mode calls
\* cancel_query, marks the query cancelled and returns Cancelled.
C4_Original ==
    [][\A t \in Threads :
         C4_Case(t) =>
           /\ thr'[t].slept = thr[t].slept
           /\ thr[t].catch => thr'[t].raised
           /\ ~thr[t].catch =>
                /\ ~thr'[t].raised
                /\ thr'[t].cancel_calls = thr[t].cancel_calls + 1
                /\ query_cancelled'
                /\ Decision(t)' = "Cancelled"]_vars

\* C4 as amended: a failed soft-limit check never sleeps and raises in
\* synchronous mode; in asynchronous mode it cancels the query of an attached
\* context and returns Cancelled, and for a context attached to no query it
\* only logs: no cancel_query, no exception, nothing cancelled.
C4_SoftLimitEscalates ==
    [][\A t \in Threads :
         C4_Case(t) =>
           /\ thr'[t].pc = "checked"
           /\ thr'[t].slept = thr[t].slept
           /\ thr[t].catch =>
                /\ thr'[t].raised
                /\ thr'[t].cancel_calls = thr[t].cancel_calls
                /\ query_cancelled' = query_cancelled
           /\ ~thr[t].catch /\ thr[t].attach =>
                /\ ~thr'[t].raised
                /\ thr'[t].cancel_calls = thr[t].cancel_calls + 1
                /\ query_cancelled'
                /\ Decision(t)' = "Cancelled"
           /\ ~thr[t].catch /\ ~thr[t].attach =>
                /\ ~thr'[t].raised
                /\ thr'[t].cancel_calls = thr[t].cancel_calls
                /\ query_cancelled' = query_cancelled]_vars

\* an unattached context over its soft limit is admitted in asynchronous mode
C4_Witness ==
    \E t \in Threads :
      /\ Checked(t) /\ thr[t].trk_path = "failed" /\ ~thr[t].attach
      /\ ~thr[t].catch /\ thr[t].cancel_calls = 0 /\ Decision(t) = "Proceed"

\* sys_memory_check has left the wait loop because the limit was free again
C5_Passed(t) ==
    /\ SysLeft(t) /\ thr[t].pc = "trk" /\ thr[t].sys_path = "freed"
    /\ ~thr[t].raised /\ thr[t].cancel_calls = 0 /\ thr[t].wait_gc

\* C5: a check that sleeps in the wait loop, the ceiling not yet reached,
\* returns Proceed (nothing raised, no cancel_query, waiting still enabled)
\* unless the hard limit is exceeded for its request again while it sleeps.
C5_WaitLoopLiveness ==
    \A t \in Threads :
      (thr[t].pc = "sleep")
        ~> ( \/ C5_Passed(t)
             \/ thr[t].pc = "sleep" /\ is_exceed_hard_mem_limit(thr[t].size) )

\* a check admitted at its second poll
C5_Witness ==
    \E t \in Threads : C5_Passed(t) /\ thr[t].slept = 2 /\ thr[t].grown = thr[t].size

InCheck(t) == thr[t].pc \in {"sys", "hard", "cancel0", "sleep", "cancel1", "trk"}

Slept(t) == thr[t].slept * PollMs

\* C6 as claimed (its bound): the time a check has slept is a multiple of the
\* polling increment and strictly less than the ceiling plus one increment,
\* for every ceiling.
C6_Original ==
    \A t \in Threads :
      SysLeft(t) /\ HardExceeded(t) /\ thr[t].wait_eligible =>
        /\ Slept(t) % PollMs = 0
        /\ Slept(t) < wait_max + PollMs

\* C6 as amended: every check terminates, and the time it has slept is a
\* multiple of the polling increment and strictly less than the ceiling plus
\* one increment when the ceiling is positive, and zero when it is not.
C6_BoundedWait ==
    /\ [] \A t \in Threads :
            /\ Slept(t) % PollMs = 0
            /\ thr[t].wait_ms % PollMs = 0
            /\ Slept(t) \in {thr[t].wait_ms, thr[t].wait_ms + PollMs}
            /\ Slept(t) < (IF wait_max > 0 THEN wait_max ELSE 0) + PollMs
    /\ \A t \in Threads : InCheck(t) ~> Checked(t)

\* a ceiling of 150 ms is waited out in two sleeps
C6_Witness ==
    \E t \in Threads :
      /\ Checked(t) /\ thr[t].sys_path = "timeout"
      /\ wait_max = PollMs + PollMs \div 2 /\ Slept(t) = 2 * PollMs

\* the check that waits out the ceiling disables waiting and escalates
C7_Timeout(t) ==
    thr[t].sys_path = "timeout" =>
      /\ ~thr[t].wait_gc
      /\ thr[t].catch => thr[t].raised /\ Decision(t) = "Fail"
      /\ ~thr[t].catch =>
           /\ is_query_cancelled(t)
           /\ thr[t].cancel_calls = 1 + TrackerCalls(t)

\* a later check of a context that has waited out the ceiling, over the limit
C7_Later(t) ==
    /\ Checked(t) /\ thr[t].timed_out /\ thr[t].sys_path # "timeout"
    /\ HardExceeded(t)

\* C7 as claimed: after a check has waited out the ceiling, every later check
\* of the context over the hard limit never sleeps and never is Proceed.
C7_Original ==
    \A t \in Threads :
      /\ C7_Timeout(t)
      /\ C7_Later(t) => thr[t].slept = 0 /\ Decision(t) # "Proceed"

\* C7 as amended: waiting stays disabled, and a later check over the hard limit
\* never sleeps; it is Fail in synchronous mode and Cancelled in asynchronous
\* mode when the query is cancelled, and when the query is not cancelled an
\* asynchronous check only logs at the hard limit (no cancel_query of its own).
C7_FailFastAfterTimeout ==
    \A t \in Threads :
      /\ C7_Timeout(t)
      /\ thr[t].timed_out => ~thr[t].wait_gc
      /\ thr[t].timed_out /\ thr[t].sys_path # "timeout" => thr[t].slept = 0
      /\ C7_Later(t) =>
           /\ thr[t].sys_path \in {"cancelled", "no_wait_gc"}
           /\ thr[t].catch => Decision(t) = "Fail"
           /\ ~thr[t].catch /\ thr[t].sys_path = "cancelled" =>
                Decision(t) = "Cancelled"
           /\ ~thr[t].catch /\ thr[t].sys_path = "no_wait_gc" =>
                /\ ~thr[t].raised
                /\ thr[t].cancel_calls = FaultCalls(t) + TrackerCalls(t)

\* after a timeout raised in synchronous mode, an asynchronous check of the
\* same context is admitted over the hard limit
C7_Witness ==
    \E t \in Threads :
      C7_Later(t) /\ ~thr[t].catch /\ Decision(t) = "Proceed" /\ ~query_cancelled

\* a check, bypass off, that started with its query already cancelled
C8_Case(t) == Checked(t) /\ thr[t].cancelled_at_call /\ ~thr[t].skip

\* C8 as claimed: a check on a cancelled query (no fault drawn) is Cancelled in
\* both modes: no exception, no further cancel_query.
C8_Original ==
    \A t \in Threads :
      C8_Case(t) /\ ~thr[t].fault =>
        /\ Decision(t) = "Cancelled"
        /\ ~thr[t].raised
        /\ thr[t].cancel_calls = 0

\* C8 as amended: a check on a cancelled query never enters the wait loop. In
\* asynchronous mode it raises nothing and is Cancelled, and cancel_query is
\* called again exactly by a drawn fault and by a soft-limit violation. In
\* synchronous mode it calls no cancel_query and raises exactly when a fault is
\* drawn or a limit is exceeded; otherwise it is Cancelled.
C8_CancelledQueryNeverWaits ==
    \A t \in Threads :
      /\ thr[t].cancelled_at_call /\ ~thr[t].skip =>
           thr[t].slept = 0 /\ thr[t].pc \notin {"sleep", "cancel1"}
      /\ C8_Case(t) =>
           /\ thr[t].sys_path \in {"fault", "pass", "cancelled"}
           /\ ~thr[t].catch =>
                /\ ~thr[t].raised
                /\ Decision(t) = "Cancelled"
                /\ thr[t].cancel_calls = FaultCalls(t) + TrackerCalls(t)
           /\ thr[t].catch =>
                /\ thr[t].cancel_calls = 0
                /\ thr[t].raised <=> \/ thr[t].fault
                                     \/ thr[t].sys_path = "cancelled"
                                     \/ thr[t].trk_path = "failed"
                /\ ~thr[t].raised => Decision(t) = "Cancelled"

\* a cancelled query over the hard limit raises in synchronous mode
C8_Witness ==
    \E t \in Threads :
      C8_Case(t) /\ thr[t].catch /\ thr[t].raised /\ thr[t].sys_path = "cancelled"

\* another actor cancelled the query during a sleep, the limit stayed exceeded
\* and sys_memory_check has left
C9_Case(t) ==
    thr[t].ext_cancel_asleep /\ SysLeft(t) /\ thr[t].sys_path # "freed"

\* C9 as claimed: the thread stops at its next poll and leaves Cancelled: no
\* exception, no cancel_query, waiting still enabled, growth untouched.
C9_Original ==
    \A t \in Threads :
      C9_Case(t) =>
        /\ thr[t].sys_path = "cancelled_wait"
        /\ thr[t].late_sleeps <= 1
        /\ ~thr[t].raised
        /\ thr[t].cancel_calls = 0
        /\ thr[t].wait_gc
        /\ thr[t].grown = 0

\* C9 as amended: the thread stops at its next poll, after at most one sleep
\* that ends with the query cancelled, calls no cancel_query, leaves waiting
\* enabled and growth untouched; it returns Cancelled in asynchronous mode and
\* raises MEM_ALLOC_FAILED in synchronous mode.
C9_CancelledWhileWaiting ==
    /\ [] \A t \in Threads :
            /\ thr[t].ext_cancel_asleep => thr[t].late_sleeps <= 1
            /\ C9_Case(t) =>
                 /\ thr[t].sys_path = "cancelled_wait"
                 /\ thr[t].cancel_calls = 0
                 /\ thr[t].wait_gc
                 /\ thr[t].grown = 0
                 /\ thr[t].raised <=> thr[t].catch
                 /\ ~thr[t].catch => Decision(t) = "Cancelled"
    /\ [][\A t \in Threads :
            thr[t].pc = "cancel1" /\ thr'[t].pc # "cancel1" => growth' = growth]_vars

\* the cancellation is seen at the poll that ends the sleep it arrived in
C9_Witness ==
    \E t \in Threads :
      /\ C9_Case(t) /\ ~thr[t].catch /\ thr[t].sys_path = "cancelled_wait"
      /\ thr[t].late_sleeps = 1 /\ thr[t].slept = 2

\* C10: with skip_memory_check set, both stages of memory_check return at once
\* and change nothing but the position: no fault, no sleep, no exception, no
\* cancel_query, wait_gc and growth as they were, and the result is Proceed.
C10_Bypass ==
    [][\A t \in Threads :
         thr[t].skip /\ thr[t].pc \in {"sys", "trk"} /\ thr'[t].pc # thr[t].pc =>
           /\ thr'[t].pc = (IF thr[t].pc = "sys" THEN "trk" ELSE "checked")
           /\ thr'[t] = [thr[t] EXCEPT !.pc = thr'[t].pc,
                                       !.sys_path = "bypass",
                                       !.trk_path = thr'[t].trk_path]
           /\ thr'[t].trk_path \in {"none", "bypass"}
           /\ UNCHANGED <<query_cancelled, growth, process_used, tracker_used>>
           /\ thr'[t].pc = "checked" => Decision(t)' = "Proceed"]_vars

\* a bypassing check of a cancelled query, over both limits, faults enabled
C10_Witness ==
    \E t \in Threads :
      /\ Checked(t) /\ thr[t].skip /\ is_query_cancelled(t) /\ fault_enabled
      /\ is_exceed_hard_mem_limit(thr[t].size) /\ ~check_limit(thr[t].size)
      /\ Decision(t) = "Proceed"

\* C11 as claimed: a check that draws a fault ends like a check that escalates
\* at the hard limit after waiting out the ceiling: Fail or Cancelled by the
\* mode flag, the same raise or cancel_query, and waiting disabled afterwards.
C11_Original ==
    \A t \in Threads :
      /\ C7_Timeout(t)
      /\ Checked(t) /\ thr[t].fault /\ thr[t].attach =>
           /\ thr[t].catch => thr[t].raised /\ Decision(t) = "Fail"
           /\ ~thr[t].catch => ~thr[t].raised /\ Decision(t) = "Cancelled"
           /\ ~thr[t].wait_gc

\* C11 as amended: a drawn fault follows the propagation policy of the timeout
\* escalation (it raises in synchronous mode and is then the whole check; it
\* calls cancel_query in asynchronous mode, and the check of an attached
\* context ends Cancelled), but the fault stage never disables waiting, while
\* the timeout escalation always does.
C11_FaultFollowsPolicy ==
    /\ [] \A t \in Threads :
            /\ C7_Timeout(t)
            /\ thr[t].fault =>
                 /\ ~thr[t].skip
                 /\ thr[t].catch =>
                      /\ thr[t].raised /\ thr[t].cancel_calls = 0
                      /\ thr[t].sys_path = "fault" /\ thr[t].trk_path = "none"
                      /\ thr[t].pc \in {"checked", "done"}
                      /\ Decision(t) = "Fail"
                 /\ ~thr[t].catch =>
                      /\ ~thr[t].raised /\ thr[t].cancel_calls >= 1
                      /\ thr[t].attach => is_query_cancelled(t)
                      /\ Checked(t) /\ thr[t].attach => Decision(t) = "Cancelled"
    /\ [][\A t \in Threads :
            thr[t].pc = "sys" /\ thr'[t].pc # "sys" =>
              thr'[t].wait_gc = thr[t].wait_gc]_vars

\* a fault raised in synchronous mode leaves the query wait-eligible
C11_Witness ==
    \E t \in Threads :
      /\ Checked(t) /\ thr[t].fault /\ thr[t].catch /\ thr[t].raised
      /\ thr[t].attach /\ thr[t].wait_gc

\* a check that found both limits respected, no fault drawn
C12_Passed(t) ==
    /\ thr[t].sys_path = "pass" /\ thr[t].trk_path = "pass" /\ ~thr[t].fault

\* C12: a request within both limits, no fault, query not cancelled, is
\* Proceed with no sleep, exception or cancel_query; no step of its check
\* changes wait_gc, the growth counter or anything but the check's position;
\* the allocation that follows adds exactly the size to the query's and the
\* process's consumption. A request over the hard limit with waiting disabled
\* is Fail in synchronous mode and consumes nothing.
C12_NormalPass ==
    /\ [] \A t \in Threads :
            /\ Checked(t) /\ C12_Passed(t) /\ ~is_query_cancelled(t) =>
                 /\ Decision(t) = "Proceed"
                 /\ thr[t].slept = 0 /\ thr[t].wait_ms = 0
                 /\ ~thr[t].raised /\ thr[t].cancel_calls = 0
                 /\ thr[t].grown = 0
            /\ Checked(t) /\ thr[t].sys_path = "no_wait_gc" /\ thr[t].catch =>
                 Decision(t) = "Fail" /\ thr[t].slept = 0
    /\ [][\A t \in Threads :
            /\ ( /\ thr[t].pc \in {"sys", "hard", "trk"}
                 /\ thr'[t].pc \in {"hard", "trk", "checked"}
                 /\ thr'[t].pc # thr[t].pc
                 /\ ~thr[t].skip /\ ~thr'[t].fault
                 /\ thr'[t].sys_path \in {"none", "pass"}
                 /\ thr'[t].trk_path \in {"none", "pass"} )
               => /\ thr'[t] = [thr[t] EXCEPT !.pc = thr'[t].pc,
                                              !.sys_path = thr'[t].sys_path,
                                              !.trk_path = thr'[t].trk_path]
                  /\ UNCHANGED <<growth, query_cancelled, process_used,
                                 tracker_used>>
            /\ ( /\ thr[t].pc = "checked" /\ thr'[t].pc = "done"
                 /\ C12_Passed(t) /\ ~is_query_cancelled(t) )
               => /\ tracker_used' = tracker_used + thr[t].size
                  /\ process_used' = process_used + thr[t].size
                  /\ thr'[t].allocated = thr[t].size
            /\ thr[t].pc = "checked" /\ thr'[t].pc = "done" /\ thr[t].raised
               => /\ tracker_used' = tracker_used
                  /\ process_used' = process_used
                  /\ thr'[t].allocated = 0]_vars

\* a request that just fits has been admitted and has filled the process up
\* to the hard limit
C12_Witness ==
    \E t \in Threads :
      /\ thr[t].pc = "done" /\ C12_Passed(t) /\ ~thr[t].skip
      /\ thr[t].allocated = thr[t].size /\ thr[t].allocated > 0
      /\ process_used = HardLimit /\ tracker_used = thr[t].size

\* the sum of f[1] .. f[n]
RECURSIVE SumTo(_, _)
SumTo(f, n) == IF n = 0 THEN 0 ELSE f[n] + SumTo(f, n - 1)

\* a block whose allocate has not yet inserted it, or whose deallocate has
\* already erased it: the backend holds it, the ledger is not to list it
InFlight(a) ==
    \E c \in Clients :
      cli[c].addr = a /\ cli[c].pc \in {"lock_ins", "read_ins", "write_ins", "free"}

\* the live blocks and their sizes, 0 for an address that is not live
LiveSizes ==
    [a \in Addrs |-> IF heap[a] > 0 /\ ~InFlight(a) THEN heap[a] ELSE 0]

\* C13: under every interleaving of allocate and deallocate, every address
\* handed to a caller has its one ledger entry with its size, the ledger lists
\* exactly the live blocks so that its values sum to the live bytes, and it is
\* empty once everything has been deallocated. A block counts as live from
\* the insertion of its entry to the erasure of it.
C13_LedgerConsistent ==
    /\ \A a \in returned : heap[a] > 0 /\ allocated_sizes[a] = heap[a]
    /\ allocated_sizes = LiveSizes
    /\ SumTo(allocated_sizes, MaxAddr) = SumTo(LiveSizes, MaxAddr)
    /\ (\A a \in Addrs : heap[a] = 0) => \A a \in Addrs : allocated_sizes[a] = 0
    /\ \A c \in Clients :
         cli[c].pc \in {"read_ins", "read_del", "write_ins", "write_del"} => mutex = c

\* one client is about to insert an entry with the mutex held while another
\* waits for the mutex to erase an entry that is still listed
C13_Witness ==
    \E c1 \in Clients, c2 \in Clients :
      /\ cli[c1].pc = "write_ins" /\ cli[c2].pc = "lock_del"
      /\ allocated_sizes[cli[c2].addr] > 0
      /\ SumTo(allocated_sizes, MaxAddr) > 0

\* C14 as claimed: once a stage of a memory_check call has escalated, no later
\* stage of the call runs, so cancel_query is called at most once per call.
C14_Original ==
    \A t \in Threads :
      /\ thr[t].cancel_calls <= 1
      /\ thr[t].fault => thr[t].sys_path \in {"none", "fault"}
      /\ thr[t].fault \/ thr[t].sys_path = "timeout" => thr[t].trk_path = "none"

\* C14 as amended: a stage that raises ends the call, but cancel_query does
\* not: in asynchronous mode every call runs on through the soft-limit check.
\* cancel_query is called once by a drawn fault, once by a wait timeout and
\* once by a soft-limit violation of an attached query, never by a fault and a
\* timeout in the same call, so at most twice per call; after the fault of an
\* attached query the call does not sleep.
C14_StagesAfterCancel ==
    \A t \in Threads :
      /\ thr[t].raised =>
           /\ thr[t].pc \in {"checked", "done"}
           /\ thr[t].sys_path \in {"bypass", "pass", "freed", "nowait"}
                \/ thr[t].trk_path = "none"
      /\ thr[t].pc \in {"checked", "done"} /\ ~thr[t].catch =>
           thr[t].trk_path # "none"
      /\ thr[t].cancel_calls = FaultCalls(t) + SysCalls(t) + TrackerCalls(t)
      /\ FaultCalls(t) + SysCalls(t) <= 1
      /\ thr[t].cancel_calls <= 2
      /\ thr[t].fault /\ thr[t].attach => thr[t].slept = 0

\* a fault cancels the query and the soft-limit check of the same call
\* cancels it again
C14_Witness ==
    \E t \in Threads :
      /\ Checked(t) /\ thr[t].fault /\ thr[t].trk_path = "failed"
      /\ thr[t].cancel_calls = 2

\* C15: the hard-limit check that finds its query already cancelled does not
\* enter the wait loop: sys_memory_check ends in that step (it returns, or
\* raises in synchronous mode) with no sleep, wait_gc as it was and the growth
\* counter untouched.
C15_CancelledSkipsWait ==
    /\ [] \A t \in Threads :
            thr[t].sys_path = "cancelled" =>
              /\ thr[t].slept = 0 /\ thr[t].wait_ms = 0 /\ thr[t].grown = 0
              /\ thr[t].raised <=> thr[t].catch
              /\ thr[t].pc \in {"trk", "checked"} /\ thr[t].trk_path # "failed" =>
                   thr[t].wait_gc = thr[t].wait_eligible
    /\ [][\A t \in Threads :
            thr[t].pc = "cancel0" /\ is_query_cancelled(t) /\ thr'[t].pc # "cancel0"
            => /\ thr'[t].sys_path = "cancelled"
               /\ thr'[t].pc = (IF thr[t].catch THEN "checked" ELSE "trk")
               /\ thr'[t].slept = 0
               /\ thr'[t].wait_gc = thr[t].wait_gc
               /\ growth' = growth]_vars

\* a wait-eligible query that was cancelled returns from the hard-limit check
\* at once in asynchronous mode
C15_Witness ==
    \E t \in Threads :
      /\ SysLeft(t) /\ thr[t].sys_path = "cancelled" /\ ~thr[t].catch
      /\ thr[t].attach /\ thr[t].wait_gc /\ thr[t].wait_eligible
      /\ is_exceed_hard_mem_limit(thr[t].size)

\* sys_memory_check has left the branch of an attached, wait-eligible query
\* that was not cancelled when the hard limit was found exceeded
C16_Case(t) ==
    /\ SysLeft(t)
    /\ thr[t].sys_path \in {"nowait", "timeout", "freed", "cancelled_wait"}

\* C16: for an attached, wait-eligible, not cancelled context over the hard
\* limit, sys_memory_check returns normally with the query not cancelled only
\* if a re-check saw the limit no longer exceeded, whatever the GC-disable
\* flag and the ceiling are; otherwise it has raised or the query is cancelled.
C16_ProceedOnlyAfterRecheck ==
    \A t \in Threads :
      C16_Case(t) =>
        \/ thr[t].sys_path = "freed"
        \/ thr[t].raised
        \/ is_query_cancelled(t)

\* C17: with two threads allocating concurrently, the interval-growth counter
\* changes only when the arbitrator resets it or when a waiting check sees at
\* a poll that the hard limit is no longer exceeded, and then by exactly the
\* size of that request, whatever the other thread has added meanwhile; every
\* other step of memory_check, on every path, leaves the counter unchanged.
C17_GrowthOnlyAtFreedPoll ==
    [][ /\ growth' # growth =>
             \/ growth' = 0
             \/ \E t \in Workers :
                  /\ thr[t].pc = "sleep" /\ thr'[t].pc = "trk"
                  /\ ~is_exceed_hard_mem_limit(thr[t].size)
                  /\ thr'[t].sys_path = "freed"
                  /\ thr'[t].grown = thr[t].size
                  /\ growth' = growth + thr[t].size
        /\ \A t \in Workers :
             /\ ( /\ thr[t].pc = "sleep" /\ thr'[t].pc # "sleep"
                  /\ ~is_exceed_hard_mem_limit(thr[t].size) )
                => growth' = growth + thr[t].size /\ thr'[t].sys_path = "freed"
             /\ ( /\ thr'[t].pc # thr[t].pc
                  /\ thr[t].pc \in {"sys", "hard", "cancel0", "cancel1", "trk"} )
                => growth' = growth /\ thr'[t].grown = thr[t].grown ]_vars

\* two waiters were admitted in the same interval and the counter holds the
\* sizes of both
C17_Witness ==
    \E t \in Workers, u \in Workers :
      /\ t # u
      /\ thr[t].sys_path = "freed" /\ thr[u].sys_path = "freed"
      /\ thr[t].pc = "trk" /\ thr[u].pc \in {"trk", "checked"}
      /\ growth = thr[t].size + thr[u].size

\* C18: admission is not FIFO. A thread passes the hard limit exactly when
\* the arbitrator's answer to its own request allows it, at its first check
\* and at each poll, whether or not another thread has been waiting longer;
\* the witness is an execution in which a later request is admitted while an
\* earlier waiter goes on to its timeout.
C18_NotFifo ==
    [][\A t \in Workers :
         /\ thr[t].pc = "hard" /\ thr'[t].pc # "hard" =>
              ( thr'[t].pc = "trk" /\ thr'[t].sys_path = "pass" )
                <=> ~is_exceed_hard_mem_limit(thr[t].size)
         /\ thr[t].pc = "sleep" /\ thr'[t].pc # "sleep" =>
              ( thr'[t].pc = "trk" /\ thr'[t].sys_path = "freed" )
                <=> ~is_exceed_hard_mem_limit(thr[t].size)]_vars

\* a request that started while another thread was already waiting has been
\* admitted and has allocated; the earlier waiter has waited out the ceiling
\* and failed
C18_Witness ==
    \E t \in Workers, u \in Workers :
      /\ t # u /\ u \in thr[t].behind
      /\ thr[t].pc = "done" /\ thr[t].allocated > 0
      /\ thr[t].sys_path = "pass" /\ thr[t].trk_path = "pass"
      /\ thr[u].sys_path = "timeout" /\ thr[u].raised /\ thr[u].slept > 0

\* C19 as claimed: with threads allocating concurrently in synchronous mode,
\* bypass off and no fault injection, and the process within the hard limit
\* at the start, process consumption never exceeds the hard limit.
C19_Original == process_used <= HardLimit

\* C19 as amended: every admitted request fitted under the hard limit at the
\* moment of its own check, at the first check or at a poll, and consumes
\* exactly its size; the check and the consumption are separate steps, so the
\* consumption may pass the hard limit by what the other threads were
\* admitted for in between, at most one request per other thread.
C19_BoundedOvershoot ==
    /\ [] ( process_used <= HardLimit + (Cardinality(Workers) - 1) * MaxSize )
    /\ [][\A t \in Workers :
            /\ thr[t].pc \in {"hard", "sleep"} /\ thr'[t].pc = "trk" =>
                 process_used + thr[t].size <= HardLimit
            /\ thr[t].pc = "checked" /\ thr'[t].pc = "done" =>
                 /\ thr'[t].allocated > 0 =>
                      /\ thr[t].sys_path \in {"pass", "freed"}
                      /\ thr[t].trk_path = "pass"
                 /\ process_used' = process_used + thr'[t].allocated]_vars

\* both threads passed the hard-limit check before either consumed, and
\* together they have taken the process over the limit
C19_Witness ==
    /\ process_used > HardLimit
    /\ \A t \in Workers :
         /\ thr[t].pc = "done" /\ thr[t].allocated > 0 /\ thr[t].catch
         /\ thr[t].sys_path = "pass" /\ thr[t].trk_path = "pass"

\* C20: wait_gc only ever goes from enabled to disabled: no step of the
\* admission checks enables it, a soft-limit violation of an attached query
\* and a wait timeout both disable it, and a thread is in the wait loop only
\* with wait_gc enabled, so that once it is disabled no later check sleeps.
C20_WaitGcOnlyDisabled ==
    /\ [] \A t \in Threads :
            /\ thr[t].pc \in {"sleep", "cancel1"} => thr[t].wait_gc /\ thr[t].attach
            /\ thr[t].slept > 0 => thr[t].wait_eligible
            /\ thr[t].trk_path = "failed" /\ thr[t].attach => ~thr[t].wait_gc
            /\ thr[t].sys_path = "timeout" => ~thr[t].wait_gc
    /\ [][\A t \in Threads :
            /\ thr'[t].wait_gc => thr[t].wait_gc
            /\ thr'[t].slept > thr[t].slept => thr[t].wait_gc
            /\ ~thr[t].wait_gc /\ thr[t].pc = "cancel0" /\ thr'[t].pc # "cancel0" =>
                 /\ thr'[t].pc \in {"trk", "checked"}
                 /\ thr'[t].slept = 0
                 /\ thr'[t].sys_path \in {"cancelled", "no_wait_gc"}]_vars

\* after a soft-limit violation disabled waiting (no timeout has happened), a
\* later request of the same query over the hard limit fails without sleeping
C20_Witness ==
    \E t \in Threads :
      /\ Checked(t) /\ thr[t].attach /\ ~thr[t].wait_gc /\ ~thr[t].timed_out
      /\ wait_max > 0 /\ ~disable_memory_gc
      /\ thr[t].sys_path = "no_wait_gc" /\ thr[t].slept = 0 /\ thr[t].raised

====
